---- MODULE Spec2Model ----
(***************************************************************************)
(* malcontent: match post-processing (pkg/report/strings.go) and JSON      *)
(* rendering with line splitting (pkg/render/json.go).                     *)
(*                                                                         *)
(* Go offsets and indices are 0-based; TLA+ sequences are 1-based, so the  *)
(* byte at Go offset o of a content c is c[o + 1].                         *)
(***************************************************************************)
EXTENDS Integers, Sequences, FiniteSets, TLC

(* ------------------------------ bounds -------------------------------- *)
\* longest file content handed to process()
MaxLen == 2
\* longest file content whose line index is looked up directly
MaxLineLen == 4
\* longest raw match list explored
MaxMatches == 2

(* ------------------------------ bytes --------------------------------- *)
\* '\n', the only line delimiter (strings.go:212)
NL == 10
\* '\r', ordinary content for the line index, unprintable for process()
CR == 13
\* 'a', a printable byte
ChA == 97
\* lowest and highest printable byte (strings.go:202)
MinPrintable == 32
MaxPrintable == 126

Bytes == {NL, CR, ChA}
Contents == UNION {[1..n -> Bytes] : n \in 0..MaxLen}
LineContents == UNION {[1..n -> Bytes] : n \in 0..MaxLineLen}

(* --------------------------- state ------------------------------------ *)
VARIABLES
    \* matchProcessor fields (strings.go:58-65)
    fc, lineOffsets, matches, patterns, strings,
    \* the last two getLineInfo calls made on the processor: [pos, line, char]
    lookup, prevLookup,
    \* the package-level pools (strings.go:12-15, 77-82)
    matchResultPool, matchPool,
    \* the *MatchResult the last process() call returned
    ret,
    \* splitBehaviorsByLineNumbers: the argument and the returned FileReport
    \* of the last call, and the number of calls made
    splitIn, splitOut, splitCalls,
    \* the Report handed to the renderer: rep.Files (path -> FileReport) and
    \* rep.Diff; the config c; whether ctx is cancelled
    files, diff, config, ctxCancelled,
    \* JSON.Full: position, the document jr under construction, the keys
    \* Range has still to visit, the output sink r.w, the returned error, and
    \* rep.Files as it was when Full was called
    fullPc, jr, toVisit, sink, fullErr, filesAtCall,
    \* concurrent Intern calls on one StringPool: each goroutine's position,
    \* argument and returned string, and the RWMutex (the goroutines holding
    \* the read lock, the goroutine holding the write lock or 0)
    spPc, spArg, spRet, spReaders, spWriter,
    \* concurrent process() calls: each goroutine's call (position, instance,
    \* held slice and buffer, locals, result), the matchProcessor instances,
    \* the holder of each instance's mu (or 0), the backing arrays of the
    \* pooled slices, initializeOnce, and the number of buffer pools built
    wk, mps, mu, heap, initializeOnce, poolBuilds

mpVars == <<fc, lineOffsets, matches, patterns, strings>>
lineVars == <<lookup, prevLookup>>
procVars == <<matchResultPool, matchPool, ret>>
splitVars == <<splitIn, splitOut, splitCalls>>
repVars == <<files, diff, config, ctxCancelled>>
fullVars == <<fullPc, jr, toVisit, sink, fullErr, filesAtCall>>
internVars == <<spPc, spArg, spRet, spReaders, spWriter>>
workVars == <<wk, mps, mu, heap, initializeOnce, poolBuilds>>
concVars == <<internVars, workVars>>

Nil == [nil |-> TRUE]
\* a Go map with no entries
EmptyMap == [k \in {} |-> k]

(* --------------------------- Line Index ------------------------------- *)
\* strings.go:209-217 with the bug "offsets = append(offsets, i)"
RECURSIVE computeLineOffsetsAtNewlineFrom(_, _, _)
computeLineOffsetsAtNewlineFrom(content, i, offsets) ==
    IF i >= Len(content) THEN offsets
    ELSE computeLineOffsetsAtNewlineFrom(content, i + 1,
            IF content[i + 1] = NL THEN Append(offsets, i) ELSE offsets)
computeLineOffsets_AtNewline(content) ==
    computeLineOffsetsAtNewlineFrom(content, 0, <<0>>)

\* the loop of computeLineOffsets: for i, b := range content
RECURSIVE computeLineOffsetsFrom(_, _, _)
computeLineOffsetsFrom(content, i, offsets) ==
    IF i >= Len(content) THEN offsets
    ELSE computeLineOffsetsFrom(content, i + 1,
            IF content[i + 1] = NL THEN Append(offsets, i + 1) ELSE offsets)

computeLineOffsets(content) ==
    computeLineOffsetsFrom(content, 0, <<0>>)

\* sort.Search(n, f) with f(h) = offsets[h] > pos: the smallest index in
\* [i, j) for which f holds, j if none (binary search, f monotone)
RECURSIVE sortSearch(_, _, _, _)
sortSearch(i, j, offsets, pos) ==
    IF i < j
    THEN LET h == (i + j) \div 2
         IN  IF ~(offsets[h + 1] > pos)
             THEN sortSearch(h + 1, j, offsets, pos)
             ELSE sortSearch(i, h, offsets, pos)
    ELSE i

\* getLineInfo without the "pos >= len(mp.fc)" half of the range check
getLineInfo_NoUpperCheck(content, offsets, pos) ==
    IF pos < 0 THEN <<1, 0>>
    ELSE LET found == sortSearch(0, Len(offsets), offsets, pos) - 1
             idx == IF found < 0 THEN 0 ELSE found
         IN  <<idx + 1, pos - offsets[idx + 1]>>

\* getLineInfo(pos) on a processor with fc = content, lineOffsets = offsets:
\* <<line, char>>
getLineInfo(content, offsets, pos) ==
    IF pos < 0 \/ pos >= Len(content) THEN <<1, 0>>
    ELSE LET found == sortSearch(0, Len(offsets), offsets, pos) - 1
             idx == IF found < 0 THEN 0 ELSE found
         IN  <<idx + 1, pos - offsets[idx + 1]>>

NoLookup == [pos |-> -1, line |-> 0, char |-> 0, called |-> FALSE]

\* positions handed to getLineInfo: every offset of the content, and some
\* on either side of it
Positions == -2..(MaxLineLen + 2)

\* a caller invokes mp.getLineInfo(p)
GetLineInfo(p) ==
    /\ LET r == getLineInfo(fc, lineOffsets, p)
       IN  lookup' = [pos |-> p, line |-> r[1], char |-> r[2], called |-> TRUE]
    /\ prevLookup' = lookup
    /\ UNCHANGED <<concVars, mpVars, procVars, splitVars, repVars, fullVars>>

(* --------------------------- String Interner -------------------------- *)
\* StringPool.Intern(s) run alone on the map pool: <<returned string, map>>
Intern(pool, s) ==
    IF s \in DOMAIN pool
    THEN <<pool[s], pool>>
    ELSE <<s, [k \in DOMAIN pool \cup {s} |-> IF k = s THEN s ELSE pool[k]]>>

(* ---------------- String Interner under concurrent calls -------------- *)
\* most goroutines calling Intern on one StringPool
MaxProcs == 2
Procs == 1..MaxProcs
\* a Go string: its bytes and the goroutine whose argument it is, so that
\* two equal strings from different callers are different instances
StringOf(val, p) == [val |-> val, by |-> p]
\* the map sp.strings with s stored under its own bytes
mapStore(m, s) ==
    [k \in DOMAIN m \cup {s.val} |-> IF k = s.val THEN s ELSE m[k]]

\* goroutine p calls sp.Intern(s)
InternCall(p, val) ==
    /\ spPc[p] = "idle"
    /\ spPc' = [spPc EXCEPT ![p] = "rlock"]
    /\ spArg' = [spArg EXCEPT ![p] = StringOf(val, p)]
    /\ spRet' = [spRet EXCEPT ![p] = Nil]
    /\ UNCHANGED <<spReaders, spWriter, mpVars, lineVars, procVars, splitVars,
                   repVars, fullVars, workVars>>

\* sp.RLock() (strings.go:32): granted unless a goroutine holds the write
\* lock or is blocked in Lock (sync.RWMutex: a blocked Lock call excludes
\* new readers)
InternRLock(p) ==
    /\ spPc[p] = "rlock"
    /\ spWriter = 0
    /\ spReaders' = spReaders \cup {p}
    /\ spPc' = [spPc EXCEPT ![p] = "read"]
    /\ UNCHANGED <<spArg, spRet, spWriter, mpVars, lineVars, procVars,
                   splitVars, repVars, fullVars, workVars>>

\* the lookup under the read lock and sp.RUnlock() (strings.go:33-37): a
\* hit returns the stored string, a miss goes on to sp.Lock()
InternFastPath(p) ==
    /\ spPc[p] = "read"
    /\ spReaders' = spReaders \ {p}
    /\ IF spArg[p].val \in DOMAIN strings
       THEN /\ spRet' = [spRet EXCEPT ![p] = strings[spArg[p].val]]
            /\ spPc' = [spPc EXCEPT ![p] = "idle"]
       ELSE /\ spPc' = [spPc EXCEPT ![p] = "lock"]
            /\ UNCHANGED spRet
    /\ UNCHANGED <<spArg, spWriter, mpVars, lineVars, procVars, splitVars,
                   repVars, fullVars, workVars>>

\* sp.Lock() is called (strings.go:39): p becomes the one writer, and new
\* readers are held back while the present ones finish
InternLock(p) ==
    /\ spPc[p] = "lock"
    /\ spWriter = 0
    /\ spWriter' = p
    /\ spPc' = [spPc EXCEPT ![p] = "drain"]
    /\ UNCHANGED <<spArg, spRet, spReaders, mpVars, lineVars, procVars,
                   splitVars, repVars, fullVars, workVars>>

\* sp.Lock() returns: the last reader has released the lock
InternLocked(p) ==
    /\ spPc[p] = "drain"
    /\ spReaders = {}
    /\ spPc' = [spPc EXCEPT ![p] = "write"]
    /\ UNCHANGED <<spArg, spRet, spReaders, spWriter, mpVars, lineVars,
                   procVars, splitVars, repVars, fullVars, workVars>>

\* the write path with the re-check left out: s is stored whatever the map
\* holds
InternSlowPath_NoRecheck(p) ==
    /\ spPc[p] = "write"
    /\ strings' = mapStore(strings, spArg[p])
    /\ spRet' = [spRet EXCEPT ![p] = spArg[p]]
    /\ spWriter' = 0
    /\ spPc' = [spPc EXCEPT ![p] = "idle"]
    /\ UNCHANGED <<spArg, spReaders, fc, lineOffsets, matches, patterns,
                   lineVars, procVars, splitVars, repVars, fullVars, workVars>>

\* under the write lock: the re-check, the insert, the return and the
\* deferred sp.Unlock() (strings.go:40-47)
InternSlowPath(p) ==
    /\ spPc[p] = "write"
    /\ IF spArg[p].val \in DOMAIN strings
       THEN /\ spRet' = [spRet EXCEPT ![p] = strings[spArg[p].val]]
            /\ UNCHANGED strings
       ELSE /\ strings' = mapStore(strings, spArg[p])
            /\ spRet' = [spRet EXCEPT ![p] = spArg[p]]
    /\ spWriter' = 0
    /\ spPc' = [spPc EXCEPT ![p] = "idle"]
    /\ UNCHANGED <<spArg, spReaders, fc, lineOffsets, matches, patterns,
                   lineVars, procVars, splitVars, repVars, fullVars, workVars>>

\* a step of goroutine p inside Intern
InternStep(p) ==
    \/ InternRLock(p)
    \/ InternFastPath(p)
    \/ InternLock(p)
    \/ InternLocked(p)
    \/ InternSlowPath(p)

(* --------------------------- Match Aggregator ------------------------- *)
\* cap of the copy buffer handed out by matchPool.Get(8) (strings.go:112)
BufferCap == 8

ZeroMatchResult ==
    [Strings |-> <<>>, StartingLine |-> 0, EndingLine |-> 0,
     StartingOffset |-> 0, EndingOffset |-> 0]

containsUnprintable(b) ==
    \E i \in 1..Len(b) : b[i] < MinPrintable \/ b[i] > MaxPrintable

\* slices.Compact: replaces runs of equal consecutive elements by one copy
RECURSIVE slicesCompact(_)
slicesCompact(s) ==
    IF Len(s) <= 1 THEN s
    ELSE LET rest == slicesCompact(Tail(s))
         IN  IF Head(s) = Head(rest) THEN rest ELSE <<Head(s)>> \o rest

\* updateLineInfo with the column tie-breaks dropped: a later match only
\* replaces a bound when its line differs
updateLineInfo_NoTieBreak(content, offsets, st, offset, length) ==
    LET m == getLineInfo(content, offsets, offset)
        e == getLineInfo(content, offsets, offset + length - 1)
    IN  IF st.firstMatch
        THEN [st EXCEPT !.startingLine = m[1], !.startingOffset = m[2],
                        !.endingLine = e[1], !.endingOffset = e[2],
                        !.firstMatch = FALSE]
        ELSE LET s1 == IF m[1] < st.startingLine
                       THEN [st EXCEPT !.startingLine = m[1], !.startingOffset = m[2]]
                       ELSE st
             IN  IF e[1] > s1.endingLine
                 THEN [s1 EXCEPT !.endingLine = e[1], !.endingOffset = e[2]]
                 ELSE s1

\* updateLineInfo(offset, length, &startingLine, ...) on the locals st
updateLineInfo(content, offsets, st, offset, length) ==
    LET m == getLineInfo(content, offsets, offset)
        e == getLineInfo(content, offsets, offset + length - 1)
    IN  IF st.firstMatch
        THEN [st EXCEPT !.startingLine = m[1], !.startingOffset = m[2],
                        !.endingLine = e[1], !.endingOffset = e[2],
                        !.firstMatch = FALSE]
        ELSE LET s1 == IF m[1] < st.startingLine
                          \/ (m[1] = st.startingLine /\ m[2] < st.startingOffset)
                       THEN [st EXCEPT !.startingLine = m[1], !.startingOffset = m[2]]
                       ELSE st
             IN  IF e[1] > s1.endingLine
                    \/ (e[1] = s1.endingLine /\ e[2] > s1.endingOffset)
                 THEN [s1 EXCEPT !.endingLine = e[1], !.endingOffset = e[2]]
                 ELSE s1

\* the bounds check of the match loop (strings.go:123)
outOfBounds(content, o, l) == o < 0 \/ o + l > Len(content)

\* the loop body with a rejected match still reaching updateLineInfo
processMatch_SpanOfRejected(content, offsets, pats, st, m) ==
    LET l == m.length
        o == m.offset
    IN  IF outOfBounds(content, o, l)
        THEN updateLineInfo(content, offsets, st, o, l)
        ELSE LET matchBytes == SubSeq(content, o + 1, o + l)
             IN  IF ~containsUnprintable(matchBytes)
                 THEN LET in == Intern(st.pool, matchBytes)
                          s1 == [st EXCEPT !.buffer = IF l <= BufferCap
                                                      THEN matchBytes ELSE @,
                                           !.result = Append(@, in[1]),
                                           !.pool = in[2]]
                      IN  updateLineInfo(content, offsets, s1, o, l)
                 ELSE LET s1 == [st EXCEPT !.result = @ \o slicesCompact(pats)]
                      IN  updateLineInfo(content, offsets, s1, o, l)

\* the loop body appending a printable string only when the interner did
\* not hold it yet
processMatch_InternDedups(content, offsets, pats, st, m) ==
    LET l == m.length
        o == m.offset
    IN  IF outOfBounds(content, o, l) THEN st
        ELSE LET matchBytes == SubSeq(content, o + 1, o + l)
             IN  IF ~containsUnprintable(matchBytes)
                 THEN LET in == Intern(st.pool, matchBytes)
                          s1 == [st EXCEPT !.buffer = IF l <= BufferCap
                                                      THEN matchBytes ELSE @,
                                           !.result = IF matchBytes \in DOMAIN st.pool
                                                      THEN @ ELSE Append(@, in[1]),
                                           !.pool = in[2]]
                      IN  updateLineInfo(content, offsets, s1, o, l)
                 ELSE LET s1 == [st EXCEPT !.result = @ \o slicesCompact(pats)]
                      IN  updateLineInfo(content, offsets, s1, o, l)

\* one iteration of the match loop on the locals st, for the match m
processMatch(content, offsets, pats, st, m) ==
    LET l == m.length
        o == m.offset
    IN  IF outOfBounds(content, o, l) THEN st
        ELSE LET matchBytes == SubSeq(content, o + 1, o + l)
             IN  IF ~containsUnprintable(matchBytes)
                 THEN LET viaBuffer == l <= BufferCap
                          \* buffer = buffer[:l]; copy(buffer, matchBytes)
                          buf == IF viaBuffer THEN matchBytes ELSE st.buffer
                          str == IF viaBuffer THEN buf ELSE matchBytes
                          in == Intern(st.pool, str)
                          s1 == [st EXCEPT !.buffer = buf,
                                           !.result = Append(@, in[1]),
                                           !.pool = in[2]]
                      IN  updateLineInfo(content, offsets, s1, o, l)
                 ELSE LET s1 == [st EXCEPT !.result = @ \o slicesCompact(pats)]
                      IN  updateLineInfo(content, offsets, s1, o, l)

\* for _, match := range mp.matches, from index i on
RECURSIVE processLoop(_, _, _, _, _, _)
processLoop(content, offsets, ms, pats, st, i) ==
    IF i > Len(ms) THEN st
    ELSE processLoop(content, offsets, ms, pats,
                     processMatch(content, offsets, pats, st, ms[i]), i + 1)

\* the locals of process() before the loop
processLocals(pool, buffer) ==
    [result |-> <<>>, startingLine |-> 0, endingLine |-> 0,
     startingOffset |-> 0, endingOffset |-> 0, firstMatch |-> TRUE,
     buffer |-> buffer, pool |-> pool]

\* the locals of process() after the loop over ms
processFinal(content, offsets, ms, pats, pool, buffer) ==
    processLoop(content, offsets, ms, pats, processLocals(pool, buffer), 1)

\* the *MatchResult built from the locals (strings.go:154-163)
matchResultOf(st) ==
    [Strings |-> st.result, StartingLine |-> st.startingLine,
     EndingLine |-> st.endingLine, StartingOffset |-> st.startingOffset,
     EndingOffset |-> st.endingOffset]

\* mp.process(), no other call in flight
Process ==
    IF Len(matches) = 0
    THEN /\ ret' = ZeroMatchResult
         /\ UNCHANGED <<concVars, mpVars, lineVars, matchResultPool, matchPool, splitVars,
                        repVars, fullVars>>
    ELSE LET \* matchResultPool.Get(): a pooled slice, or a new one
             \* initializeOnce.Do: the pool is built on the first call
             \* matchPool.Get(8): a pooled buffer, or a new one
             buffer == IF matchPool.bufs = <<>> THEN <<>> ELSE Head(matchPool.bufs)
             st == processFinal(fc, lineOffsets, matches, patterns, strings, buffer)
         IN  /\ ret' = matchResultOf(st)
             /\ strings' = st.pool
             \* deferred matchPool.Put(buffer), matchResultPool.Put(result)
             /\ matchPool' = [built |-> TRUE, bufs |-> <<st.buffer>>]
             /\ matchResultPool' = <<st.result>>
             /\ UNCHANGED <<concVars, fc, lineOffsets, matches, patterns, lineVars, splitVars,
                            repVars, fullVars>>

(* ---------------- Match Aggregator under concurrent calls -------------- *)
\* most goroutines calling process()
MaxWorkers == 2
Workers == 1..MaxWorkers
\* what a process() call never touches but through the package pools
nonWorkVars == <<internVars, mpVars, lineVars, ret, splitVars, repVars, fullVars>>

\* the n-th pooled string slice (*[]string) and the n-th pooled copy buffer
SliceId(n) == [kind |-> "slice", n |-> n]
BufferId(n) == [kind |-> "buffer", n |-> n]
\* the elements of a pool
Pooled(items) == {items[k] : k \in 1..Len(items)}
\* the slice and the buffer a call holds
HeldBy(w) == {wk[w].result, wk[w].buffer} \ {Nil}
Held == UNION {HeldBy(w) : w \in Workers}
\* the slice an empty matchResultPool makes (New, strings.go:78-81), and
\* the buffer an empty buffer pool makes: ones not in use anywhere
NewSlice ==
    SliceId(CHOOSE n \in Workers :
              SliceId(n) \notin Pooled(matchResultPool) \cup Held)
NewBuffer ==
    BufferId(CHOOSE n \in Workers :
               BufferId(n) \notin Pooled(matchPool.bufs) \cup Held)
\* a pool that keeps the item it hands out
poolWithout_Keeps(items, k) == items
\* a pool after Get has handed out its k-th item
poolWithout(items, k) ==
    [j \in 1..(Len(items) - 1) |-> IF j < k THEN items[j] ELSE items[j + 1]]
\* a pool after Put(id); the order of a pool's items means nothing to Get,
\* so they are kept by number
RECURSIVE poolWith(_, _)
poolWith(items, id) ==
    IF items = <<>> THEN <<id>>
    ELSE IF id.n <= Head(items).n THEN <<id>> \o items
         ELSE <<Head(items)>> \o poolWith(Tail(items), id)
\* h with the contents c at id
heapStore(h, id, c) ==
    [x \in DOMAIN h \cup {id} |-> IF x = id THEN c ELSE h[x]]

\* pool.NewBufferPool(len(mp.matches)): a thread-safe pool of byte buffers,
\* empty when built
NewBufferPool == [built |-> TRUE, bufs |-> <<>>]

\* goroutine w calls process() on instance i: an empty match list returns
\* &MatchResult{} at once, mu untouched (strings.go:87-89)
ProcessCall(w, i) ==
    /\ wk[w].pc = "idle"
    /\ IF Len(mps[i].matches) = 0
       THEN wk' = [wk EXCEPT ![w].inst = i,
                             ![w].ret = [res |-> ZeroMatchResult, alias |-> Nil]]
       ELSE wk' = [wk EXCEPT ![w].inst = i, ![w].ret = Nil, ![w].pc = "lock"]
    /\ UNCHANGED <<mps, mu, heap, initializeOnce, poolBuilds, matchResultPool,
                   matchPool, nonWorkVars>>

\* process() entered without mp.mu.Lock()
ProcessLock_NoMutex(w) ==
    /\ wk[w].pc = "lock"
    /\ wk' = [wk EXCEPT ![w].pc = "getResult"]
    /\ UNCHANGED <<mps, mu, heap, initializeOnce, poolBuilds, matchResultPool,
                   matchPool, nonWorkVars>>

\* mp.mu.Lock() (strings.go:91), granted when no call holds the mutex
ProcessLock(w) ==
    /\ wk[w].pc = "lock"
    /\ mu[wk[w].inst] = 0
    /\ mu' = [mu EXCEPT ![wk[w].inst] = w]
    /\ wk' = [wk EXCEPT ![w].pc = "getResult"]
    /\ UNCHANGED <<mps, heap, initializeOnce, poolBuilds, matchResultPool,
                   matchPool, nonWorkVars>>

\* matchResultPool.Get() and "*result = (*result)[:0]" (strings.go:94-102):
\* any pooled slice, or a new one when the pool is empty
ProcessGetResult(w) ==
    /\ wk[w].pc = "getResult"
    /\ IF matchResultPool = <<>>
       THEN /\ wk' = [wk EXCEPT ![w].result = NewSlice, ![w].pc = "once"]
            /\ heap' = heapStore(heap, NewSlice, <<>>)
            /\ UNCHANGED matchResultPool
       ELSE \E k \in 1..Len(matchResultPool) :
              /\ wk' = [wk EXCEPT ![w].result = matchResultPool[k],
                                  ![w].pc = "once"]
              /\ heap' = heapStore(heap, matchResultPool[k], <<>>)
              /\ matchResultPool' = poolWithout(matchResultPool, k)
    /\ UNCHANGED <<mps, mu, initializeOnce, poolBuilds, matchPool, nonWorkVars>>

\* the buffer pool built by every call, without sync.Once
ProcessOnce_EveryCall(w) ==
    /\ wk[w].pc = "once"
    /\ initializeOnce' = TRUE
    /\ matchPool' = NewBufferPool
    /\ poolBuilds' = poolBuilds + 1
    /\ wk' = [wk EXCEPT ![w].pc = "getBuffer"]
    /\ UNCHANGED <<mps, mu, heap, matchResultPool, nonWorkVars>>

\* initializeOnce.Do(matchPool = pool.NewBufferPool(...)) (strings.go:108-110):
\* the first call builds the pool, every other call finds it built
ProcessOnce(w) ==
    /\ wk[w].pc = "once"
    /\ IF initializeOnce
       THEN UNCHANGED <<initializeOnce, matchPool, poolBuilds>>
       ELSE /\ initializeOnce' = TRUE
            /\ matchPool' = NewBufferPool
            /\ poolBuilds' = poolBuilds + 1
    /\ wk' = [wk EXCEPT ![w].pc = "getBuffer"]
    /\ UNCHANGED <<mps, mu, heap, matchResultPool, nonWorkVars>>

\* matchPool.Get(8) (strings.go:112): any pooled buffer, or a new one
ProcessGetBuffer(w) ==
    /\ wk[w].pc = "getBuffer"
    /\ matchPool.built
    /\ IF matchPool.bufs = <<>>
       THEN /\ wk' = [wk EXCEPT ![w].buffer = NewBuffer, ![w].pc = "loop"]
            /\ heap' = heapStore(heap, NewBuffer, <<>>)
            /\ UNCHANGED matchPool
       ELSE \E k \in 1..Len(matchPool.bufs) :
              /\ wk' = [wk EXCEPT ![w].buffer = matchPool.bufs[k],
                                  ![w].pc = "loop"]
              /\ matchPool' = [matchPool EXCEPT !.bufs = poolWithout(@, k)]
              /\ UNCHANGED heap
    /\ UNCHANGED <<mps, mu, initializeOnce, poolBuilds, matchResultPool,
                   nonWorkVars>>

\* the match loop (strings.go:119-152): fills the held slice, interns into
\* the instance's pool, leaves the span in the locals; the bytes the loop
\* leaves in the copy buffer are read by no later step and are not kept
ProcessLoop(w) ==
    /\ wk[w].pc = "loop"
    /\ LET mp == mps[wk[w].inst]
           st == processFinal(mp.fc, mp.lineOffsets, mp.matches, mp.patterns,
                              mp.pool, heap[wk[w].buffer])
       IN  /\ heap' = heapStore(heap, wk[w].result, st.result)
           /\ mps' = [mps EXCEPT ![wk[w].inst].pool = st.pool]
           /\ wk' = [wk EXCEPT ![w].st = [st EXCEPT !.buffer = <<>>],
                               ![w].pc = "finish"]
    /\ UNCHANGED <<mu, initializeOnce, poolBuilds, matchResultPool, matchPool,
                   nonWorkVars>>

\* the returned Strings left on the pooled slice's array
finalResult_Aliased(h, id) == [data |-> h[id], alias |-> id]
\* "finalResult := make(...); copy(finalResult, *result)" (strings.go:154-155)
finalResult(h, id) == [data |-> h[id], alias |-> Nil]

\* the result is built and the deferred calls run: matchPool.Put(buffer),
\* matchResultPool.Put(result), mp.mu.Unlock() (strings.go:154-163, 113,
\* 102, 92)
ProcessFinish(w) ==
    /\ wk[w].pc = "finish"
    /\ LET fr == finalResult(heap, wk[w].result)
           res == matchResultOf([wk[w].st EXCEPT !.result = fr.data])
       IN  wk' = [wk EXCEPT ![w].ret = [res |-> res, alias |-> fr.alias],
                            ![w].result = Nil, ![w].buffer = Nil,
                            ![w].st = Nil, ![w].pc = "idle"]
    /\ matchPool' = [matchPool EXCEPT !.bufs = poolWith(@, wk[w].buffer)]
    /\ matchResultPool' = poolWith(matchResultPool, wk[w].result)
    /\ mu' = [mu EXCEPT ![wk[w].inst] = 0]
    /\ UNCHANGED <<mps, heap, initializeOnce, poolBuilds, nonWorkVars>>

\* a step of goroutine w inside process(), the mutex aside
ProcessStep(w) ==
    \/ ProcessGetResult(w)
    \/ ProcessOnce(w)
    \/ ProcessGetBuffer(w)
    \/ ProcessLoop(w)
    \/ ProcessFinish(w)

(* --------------------------- Line-Splitting Transform ----------------- *)
\* the Behavior built for line i of b, with the bug "LineNumbers:
\* b.LineNumbers" (the whole list kept)
newBehavior_KeepsAllLines(b, i) ==
    [Description |-> b.Description, MatchStrings |-> b.MatchStrings,
     LineNumbers |-> b.LineNumbers,
     CharOffsets |-> <<IF i <= Len(b.CharOffsets) THEN b.CharOffsets[i] ELSE 0>>,
     RiskScore |-> b.RiskScore, RiskLevel |-> b.RiskLevel,
     RuleURL |-> b.RuleURL, ReferenceURL |-> b.ReferenceURL,
     RuleAuthor |-> b.RuleAuthor, RuleAuthorURL |-> b.RuleAuthorURL,
     RuleLicense |-> b.RuleLicense, RuleLicenseURL |-> b.RuleLicenseURL,
     DiffAdded |-> b.DiffAdded, DiffRemoved |-> b.DiffRemoved,
     ID |-> b.ID, RuleName |-> b.RuleName, Override |-> b.Override,
     StartingLine |-> 0, EndingLine |-> 0,
     StartingOffset |-> 0, EndingOffset |-> 0]

\* newBehavior := &malcontent.Behavior{...} for the i-th (1-based) line
\* number of b; the fields the literal does not name keep Go's zero value
newBehavior(b, i) ==
    [Description |-> b.Description, MatchStrings |-> b.MatchStrings,
     LineNumbers |-> <<b.LineNumbers[i]>>,
     CharOffsets |-> <<IF i <= Len(b.CharOffsets) THEN b.CharOffsets[i] ELSE 0>>,
     RiskScore |-> b.RiskScore, RiskLevel |-> b.RiskLevel,
     RuleURL |-> b.RuleURL, ReferenceURL |-> b.ReferenceURL,
     RuleAuthor |-> b.RuleAuthor, RuleAuthorURL |-> b.RuleAuthorURL,
     RuleLicense |-> b.RuleLicense, RuleLicenseURL |-> b.RuleLicenseURL,
     DiffAdded |-> b.DiffAdded, DiffRemoved |-> b.DiffRemoved,
     ID |-> b.ID, RuleName |-> b.RuleName, Override |-> b.Override,
     StartingLine |-> 0, EndingLine |-> 0,
     StartingOffset |-> 0, EndingOffset |-> 0]

\* the loop body with the bug "len(b.LineNumbers) < 1": a behavior with one
\* line number is rebuilt instead of copied
splitBehavior_RebuildsSingle(b) ==
    IF Len(b.LineNumbers) < 1 THEN <<b>>
    ELSE [i \in 1..Len(b.LineNumbers) |-> newBehavior(b, i)]

\* what one iteration of "for _, b := range fr.Behaviors" appends
splitBehavior(b) ==
    IF Len(b.LineNumbers) <= 1 THEN <<b>>
    ELSE [i \in 1..Len(b.LineNumbers) |-> newBehavior(b, i)]

\* for _, b := range fr.Behaviors, from index k on, appending to acc
RECURSIVE splitLoop(_, _, _)
splitLoop(bs, k, acc) ==
    IF k > Len(bs) THEN acc
    ELSE splitLoop(bs, k + 1, acc \o splitBehavior(bs[k]))

\* splitBehaviorsByLineNumbers with FullPath left out of the struct literal
splitBehaviorsByLineNumbers_DropsFullPath(fr) ==
    [Path |-> fr.Path, SHA256 |-> fr.SHA256, Size |-> fr.Size,
     Skipped |-> fr.Skipped, Meta |-> fr.Meta, Syscalls |-> fr.Syscalls,
     Pledge |-> fr.Pledge, Capabilities |-> fr.Capabilities,
     FilteredBehaviors |-> fr.FilteredBehaviors,
     PreviousPath |-> fr.PreviousPath,
     PreviousRelPath |-> fr.PreviousRelPath,
     PreviousRelPathScore |-> fr.PreviousRelPathScore,
     PreviousRiskScore |-> fr.PreviousRiskScore,
     PreviousRiskLevel |-> fr.PreviousRiskLevel,
     RiskScore |-> fr.RiskScore, RiskLevel |-> fr.RiskLevel,
     IsMalcontent |-> fr.IsMalcontent, Overrides |-> fr.Overrides,
     ArchiveRoot |-> fr.ArchiveRoot, FullPath |-> "",
     Behaviors |-> splitLoop(fr.Behaviors, 1, <<>>)]

\* splitBehaviorsByLineNumbers(fr): the new FileReport
splitBehaviorsByLineNumbers(fr) ==
    [Path |-> fr.Path, SHA256 |-> fr.SHA256, Size |-> fr.Size,
     Skipped |-> fr.Skipped, Meta |-> fr.Meta, Syscalls |-> fr.Syscalls,
     Pledge |-> fr.Pledge, Capabilities |-> fr.Capabilities,
     FilteredBehaviors |-> fr.FilteredBehaviors,
     PreviousPath |-> fr.PreviousPath,
     PreviousRelPath |-> fr.PreviousRelPath,
     PreviousRelPathScore |-> fr.PreviousRelPathScore,
     PreviousRiskScore |-> fr.PreviousRiskScore,
     PreviousRiskLevel |-> fr.PreviousRiskLevel,
     RiskScore |-> fr.RiskScore, RiskLevel |-> fr.RiskLevel,
     IsMalcontent |-> fr.IsMalcontent, Overrides |-> fr.Overrides,
     ArchiveRoot |-> fr.ArchiveRoot, FullPath |-> fr.FullPath,
     Behaviors |-> splitLoop(fr.Behaviors, 1, <<>>)]

\* a caller splits the report r it holds
Split ==
    /\ splitCalls = 0
    /\ splitOut' = splitBehaviorsByLineNumbers(splitIn)
    /\ splitCalls' = 1
    /\ UNCHANGED <<concVars, splitIn, mpVars, lineVars, procVars, repVars, fullVars>>

\* the caller splits the report the previous call returned
SplitAgain ==
    /\ splitCalls = 1
    /\ splitIn' = splitOut
    /\ splitOut' = splitBehaviorsByLineNumbers(splitOut)
    /\ splitCalls' = 2
    /\ UNCHANGED <<concVars, mpVars, lineVars, procVars, repVars, fullVars>>

(* --------------------------- Serialization Adapter -------------------- *)
\* ctx.Err() of a cancelled context
Canceled == [err |-> "context canceled"]
\* the error of a failed write to r.w
WriteFailed == [err |-> "write failed"]
\* serializedStats(c, rep): the stats payload, opaque here
serializedStats == [stats |-> TRUE]

\* the caller's context is cancelled, at any moment
Cancel ==
    /\ ~ctxCancelled
    /\ ctxCancelled' = TRUE
    /\ UNCHANGED <<concVars, files, diff, config, fullVars, mpVars, lineVars, procVars,
                   splitVars>>

\* Full entered without the "if ctx.Err() != nil" check
FullEnter_NoCtxCheck ==
    /\ fullPc = "idle"
    /\ filesAtCall' = files
    /\ jr' = [Diff |-> diff, Files |-> EmptyMap, Filter |-> "", Stats |-> Nil]
    /\ toVisit' = DOMAIN files
    /\ fullPc' = "range"
    /\ UNCHANGED <<concVars, fullErr, sink, repVars, mpVars, lineVars, procVars, splitVars>>

\* Full is called: the ctx.Err() check and the construction of jr
\* (json_test.go:237-245)
FullEnter ==
    /\ fullPc = "idle"
    /\ filesAtCall' = files
    /\ IF ctxCancelled
       THEN /\ fullErr' = Canceled
            /\ fullPc' = "done"
            /\ UNCHANGED <<jr, toVisit>>
       ELSE /\ jr' = [Diff |-> diff, Files |-> EmptyMap, Filter |-> "",
                      Stats |-> Nil]
            /\ toVisit' = DOMAIN files
            /\ fullPc' = "range"
            /\ UNCHANGED fullErr
    /\ UNCHANGED <<concVars, sink, repVars, mpVars, lineVars, procVars, splitVars>>

\* the visitor's entry with the line numbers of every behavior dropped when
\* LineInfo is not requested
FullEntry_DropsLineNumbers(c, r) ==
    IF c # Nil /\ c.LineInfo THEN splitBehaviorsByLineNumbers(r)
    ELSE [r EXCEPT !.Behaviors =
            [k \in 1..Len(r.Behaviors) |->
               [r.Behaviors[k] EXCEPT !.LineNumbers = <<>>]]]

\* the visitor's entry for a non-skipped report r whose internal fields are
\* cleared, ignoring the config: always the Split result
FullEntry_AlwaysSplit(c, r) == splitBehaviorsByLineNumbers(r)

\* the visitor's entry for a non-skipped report r whose internal fields are
\* cleared: "if c != nil && c.LineInfo { r = splitBehaviorsByLineNumbers(r) }"
\* (json_test.go:262-266)
FullEntry(c, r) ==
    IF c # Nil /\ c.LineInfo THEN splitBehaviorsByLineNumbers(r) ELSE r

\* the stats step without the test for a diff payload
FullStats_IgnoresDiff(c, doc) ==
    IF c # Nil /\ c.Stats THEN [doc EXCEPT !.Stats = serializedStats] ELSE doc

\* "if c != nil && c.Stats && jr.Diff == nil { jr.Stats = serializedStats(c,
\* rep) }" (json_test.go:274-276)
FullStats(c, doc) ==
    IF c # Nil /\ c.Stats /\ doc.Diff = Nil
    THEN [doc EXCEPT !.Stats = serializedStats]
    ELSE doc

\* rep.Files.Range calls the visitor on the entry stored under path
\* (json_test.go:247-272)
FullVisit(path) ==
    /\ fullPc = "range"
    /\ path \in toVisit
    /\ IF ctxCancelled
       THEN \* return false: Range stops
            /\ fullPc' = "finish"
            /\ UNCHANGED <<files, jr, toVisit>>
       ELSE /\ toVisit' = toVisit \ {path}
            /\ UNCHANGED fullPc
            /\ IF files[path].Skipped = ""
               THEN LET \* r.ArchiveRoot = ""; r.FullPath = "" on the stored report
                        r == [files[path] EXCEPT !.ArchiveRoot = "", !.FullPath = ""]
                        entry == FullEntry(config, r)
                    IN  /\ files' = [files EXCEPT ![path] = r]
                        /\ jr' = [jr EXCEPT !.Files =
                                    [k \in DOMAIN jr.Files \cup {path} |->
                                       IF k = path THEN entry ELSE jr.Files[k]]]
               ELSE UNCHANGED <<files, jr>>
    /\ UNCHANGED <<concVars, diff, config, ctxCancelled, sink, fullErr, filesAtCall,
                   mpVars, lineVars, procVars, splitVars>>

\* Range has returned: stats, json.MarshalIndent and the write to r.w, which
\* succeeds or fails (json_test.go:274-284)
FullFinish(writeOk) ==
    /\ \/ fullPc = "finish"
       \/ fullPc = "range" /\ toVisit = {}
    /\ LET doc == FullStats(config, jr)
       IN  /\ jr' = doc
           /\ IF writeOk
              THEN /\ sink' = Append(sink, doc)
                   /\ fullErr' = Nil
              ELSE /\ fullErr' = WriteFailed
                   /\ UNCHANGED sink
    /\ fullPc' = "done"
    /\ UNCHANGED <<concVars, toVisit, filesAtCall, repVars, mpVars, lineVars, procVars,
                   splitVars>>

\* most documents the caller has the sink receive
MaxDocs == 2

\* Full has returned to its caller, which may call it again on the same
\* Report, config and context (json_test.go:133, part_000:124)
FullReturn ==
    /\ fullPc = "done"
    /\ Len(sink) < MaxDocs
    /\ fullPc' = "idle"
    /\ UNCHANGED <<concVars, jr, toVisit, sink, fullErr, filesAtCall, repVars, mpVars,
                   lineVars, procVars, splitVars>>

(* --------------------------- inputs ----------------------------------- *)
\* match lengths reported by the engine
MatchLengths == {0, 1, 2}
\* raw matches against a content: offsets from just before it to its end
Matches(content) == [offset : -1..Len(content), length : MatchLengths]
MatchLists(content) ==
    UNION {[1..n -> Matches(content)] : n \in 0..MaxMatches}
\* pattern identifiers "$a" and "$b", as byte strings
IdA == <<36, 97>>
IdB == <<36, 98>>
\* the identifiers of mp.patterns: a list with adjacent and with separated
\* duplicates
PatternLists == {<<IdA, IdA, IdB, IdA>>}

\* newMatchProcessor(content, ms, pats) (strings.go:67-75)
newMatchProcessor(content, ms, pats) ==
    /\ fc = content
    /\ strings = [k \in {} |-> k]
    /\ matches = ms
    /\ patterns = pats
    /\ lineOffsets = computeLineOffsets(content)

(* ---------------- inputs of the rendering layer ----------------------- *)
\* most line numbers recorded on one behavior
MaxLines == 2
\* most behaviors on one file report
MaxBehaviors == 2

\* line numbers and character offsets recorded for a behavior's matches
\* (json_test.go:57)
LineNumberPool == <<10, 25, 47, 51>>
CharOffsetPool == <<4, 0, 7, 2>>
Prefixes(s, n) == {SubSeq(s, 1, k) : k \in 0..n}

\* a behavior with all its metadata set (json_test.go:55-60)
BehaviorHTTP ==
    [Description |-> "HTTP connection", MatchStrings |-> <<"http://example.com">>,
     LineNumbers |-> <<>>, CharOffsets |-> <<>>,
     RiskScore |-> 2, RiskLevel |-> "MEDIUM",
     RuleURL |-> "https://rules/net/http.yara", ReferenceURL |-> "https://ref",
     RuleAuthor |-> "author", RuleAuthorURL |-> "https://author",
     RuleLicense |-> "Apache-2.0", RuleLicenseURL |-> "https://license",
     DiffAdded |-> TRUE, DiffRemoved |-> FALSE,
     ID |-> "net/http", RuleName |-> "http_conn", Override |-> <<"override">>,
     StartingLine |-> 10, EndingLine |-> 12,
     StartingOffset |-> 15, EndingOffset |-> 5]

\* a behavior scanned without line info (part_000:20-29)
BehaviorTest ==
    [Description |-> "Test behavior", MatchStrings |-> <<>>,
     LineNumbers |-> <<>>, CharOffsets |-> <<>>,
     RiskScore |-> 1, RiskLevel |-> "LOW",
     RuleURL |-> "", ReferenceURL |-> "",
     RuleAuthor |-> "", RuleAuthorURL |-> "",
     RuleLicense |-> "", RuleLicenseURL |-> "",
     DiffAdded |-> FALSE, DiffRemoved |-> TRUE,
     ID |-> "test/behavior", RuleName |-> "", Override |-> <<>>,
     StartingLine |-> 0, EndingLine |-> 0,
     StartingOffset |-> 0, EndingOffset |-> 0]

Behaviors ==
    {[b EXCEPT !.LineNumbers = ln, !.CharOffsets = co] :
        b \in {BehaviorHTTP, BehaviorTest},
        ln \in Prefixes(LineNumberPool, MaxLines),
        co \in Prefixes(CharOffsetPool, MaxLines)}
BehaviorLists == UNION {[1..n -> Behaviors] : n \in 0..MaxBehaviors}

\* a file report with every file-level field set (json_test.go:115-121)
FileReportOf(path, skipped, archiveRoot, fullPath, bs) ==
    [Path |-> path, SHA256 |-> "e3b0c442", Size |-> 1024,
     Skipped |-> skipped, Meta |-> <<"meta">>, Syscalls |-> <<"open">>,
     Pledge |-> <<"stdio">>, Capabilities |-> <<"CAP_NET_RAW">>,
     FilteredBehaviors |-> 1,
     PreviousPath |-> "old/test.sh", PreviousRelPath |-> "test.sh",
     PreviousRelPathScore |-> 1, PreviousRiskScore |-> 2,
     PreviousRiskLevel |-> "MEDIUM",
     RiskScore |-> 3, RiskLevel |-> "HIGH",
     IsMalcontent |-> TRUE, Overrides |-> <<>>,
     ArchiveRoot |-> archiveRoot, FullPath |-> fullPath,
     Behaviors |-> bs]

SkippedValues == {"", "data file"}
InternalPaths == {<<"", "">>, <<"/tmp/extract", "/tmp/extract/test.sh">>}
FileReports ==
    {FileReportOf("test.sh", sk, ip[1], ip[2], bs) :
        sk \in SkippedValues, ip \in InternalPaths, bs \in BehaviorLists}

(* ---------------- inputs of JSON.Full --------------------------------- *)
\* most file reports in the store
MaxFiles == 2
PathPool == <<"a.sh", "b.sh", "c.sh", "d.sh">>
StorePaths == {PathPool[i] : i \in 1..MaxFiles}
\* behavior lists of stored reports: one behavior without location data,
\* or one with two line numbers and an aggregated span
StoredBehaviorLists ==
    {<<BehaviorTest>>,
     <<[BehaviorHTTP EXCEPT !.LineNumbers = SubSeq(LineNumberPool, 1, 2),
                            !.CharOffsets = SubSeq(CharOffsetPool, 1, 1)]>>}
StoredReports(path) ==
    {FileReportOf(path, sk, ip[1], ip[2], bs) :
        sk \in SkippedValues, ip \in InternalPaths, bs \in StoredBehaviorLists}
\* the stores: a report under each path of some set of paths
Stores ==
    UNION {{f \in [ps -> UNION {StoredReports(q) : q \in ps}] :
              \A q \in ps : f[q] \in StoredReports(q)} : ps \in SUBSET StorePaths}
Configs ==
    {Nil} \cup [LineInfo : BOOLEAN, Stats : BOOLEAN]
DiffPayload == [diff |-> TRUE]

PoolsInit ==
    /\ matchResultPool = <<>>
    /\ matchPool = [built |-> FALSE, bufs |-> <<>>]

SplitIdle ==
    /\ splitIn = Nil
    /\ splitOut = Nil
    /\ splitCalls = 0

InternIdle ==
    /\ spPc = EmptyMap
    /\ spArg = EmptyMap
    /\ spRet = EmptyMap
    /\ spReaders = {}
    /\ spWriter = 0

WorkIdle ==
    /\ wk = EmptyMap
    /\ mps = EmptyMap
    /\ mu = EmptyMap
    /\ heap = EmptyMap
    /\ initializeOnce = FALSE
    /\ poolBuilds = 0

RenderIdle ==
    /\ files = EmptyMap
    /\ diff = Nil
    /\ config = Nil
    /\ ctxCancelled = FALSE
    /\ fullPc = "idle"
    /\ jr = Nil
    /\ toVisit = {}
    /\ sink = <<>>
    /\ fullErr = Nil
    /\ filesAtCall = EmptyMap

vars == <<mpVars, lineVars, procVars, splitVars, repVars, fullVars, concVars>>

(* ---------------- specification: the line index alone ----------------- *)
InitLine ==
    /\ \E content \in LineContents : newMatchProcessor(content, <<>>, <<>>)
    /\ lookup = NoLookup
    /\ prevLookup = NoLookup
    /\ PoolsInit
    /\ ret = Nil
    /\ InternIdle
    /\ WorkIdle
    /\ SplitIdle
    /\ RenderIdle

NextLine == \E p \in Positions : GetLineInfo(p)

SpecLine == InitLine /\ [][NextLine]_vars

(* ---------------- specification: process() on one processor ----------- *)
InitProc ==
    /\ \E content \in Contents :
         \E ms \in MatchLists(content) :
           \E pats \in PatternLists : newMatchProcessor(content, ms, pats)
    /\ lookup = NoLookup
    /\ prevLookup = NoLookup
    /\ PoolsInit
    /\ ret = Nil
    /\ InternIdle
    /\ WorkIdle
    /\ SplitIdle
    /\ RenderIdle

NextProc == Process

SpecProc == InitProc /\ [][NextProc]_vars

(* ---------------- specification: Split on one file report ------------- *)
InitSplit ==
    /\ newMatchProcessor(<<>>, <<>>, <<>>)
    /\ lookup = NoLookup
    /\ prevLookup = NoLookup
    /\ PoolsInit
    /\ ret = Nil
    /\ InternIdle
    /\ WorkIdle
    /\ splitIn \in FileReports
    /\ splitOut = Nil
    /\ splitCalls = 0
    /\ RenderIdle

NextSplit == Split \/ SplitAgain

SpecSplit == InitSplit /\ [][NextSplit]_vars

(* ---------------- specification: JSON.Full calls on one Report -------- *)
InitRender ==
    /\ newMatchProcessor(<<>>, <<>>, <<>>)
    /\ lookup = NoLookup
    /\ prevLookup = NoLookup
    /\ PoolsInit
    /\ ret = Nil
    /\ InternIdle
    /\ WorkIdle
    /\ SplitIdle
    /\ files \in Stores
    /\ diff \in {Nil, DiffPayload}
    /\ config \in Configs
    /\ ctxCancelled = FALSE
    /\ fullPc = "idle"
    /\ jr = Nil
    /\ toVisit = {}
    /\ sink = <<>>
    /\ fullErr = Nil
    /\ filesAtCall = EmptyMap

NextRender ==
    \/ Cancel
    \/ FullEnter
    \/ \E path \in StorePaths : FullVisit(path)
    \/ \E writeOk \in BOOLEAN : FullFinish(writeOk)
    \/ FullReturn

SpecRender == InitRender /\ [][NextRender]_vars

(* ---------------- specification: concurrent Intern calls -------------- *)
\* the strings the goroutines intern
InternValues == {<<ChA>>, <<ChA, ChA>>}

InitIntern ==
    /\ newMatchProcessor(<<>>, <<>>, <<>>)
    /\ lookup = NoLookup
    /\ prevLookup = NoLookup
    /\ PoolsInit
    /\ ret = Nil
    /\ spPc = [p \in Procs |-> "idle"]
    /\ spArg = [p \in Procs |-> Nil]
    /\ spRet = [p \in Procs |-> Nil]
    /\ spReaders = {}
    /\ spWriter = 0
    /\ WorkIdle
    /\ SplitIdle
    /\ RenderIdle

NextIntern ==
    \E p \in Procs :
      \/ \E val \in InternValues : InternCall(p, val)
      \/ InternRLock(p)
      \/ InternFastPath(p)
      \/ InternLock(p)
      \/ InternLocked(p)
      \/ InternSlowPath(p)

\* a goroutine inside Intern that can take a step is scheduled in the end
SpecIntern ==
    /\ InitIntern
    /\ [][NextIntern]_vars
    /\ \A p \in Procs : WF_vars(InternStep(p))

(* ---------------- specification: concurrent process() calls ----------- *)
\* the processors of the goroutines, in order: one with a printable and an
\* unprintable match, one whose only match is rejected, one with a
\* two-byte printable match, one with no match
InstanceInputs ==
    <<[fc |-> <<ChA, NL>>,
       matches |-> <<[offset |-> 0, length |-> 1], [offset |-> 1, length |-> 1]>>,
       patterns |-> <<IdA, IdB>>],
      [fc |-> <<ChA>>,
       matches |-> <<[offset |-> 1, length |-> 1]>>,
       patterns |-> <<IdA>>],
      [fc |-> <<ChA, ChA>>,
       matches |-> <<[offset |-> 0, length |-> 2]>>,
       patterns |-> <<IdA>>],
      [fc |-> <<ChA>>, matches |-> <<>>, patterns |-> <<>>]>>
ProcessorInputs == {InstanceInputs[k] : k \in 1..Len(InstanceInputs)}
\* newMatchProcessor(in.fc, in.matches, in.patterns) as one instance
newInstance(in) ==
    [fc |-> in.fc, pool |-> EmptyMap, matches |-> in.matches,
     patterns |-> in.patterns, lineOffsets |-> computeLineOffsets(in.fc)]
\* a goroutine not inside process()
WorkerIdle ==
    [pc |-> "idle", inst |-> 0, result |-> Nil, buffer |-> Nil, st |-> Nil,
     ret |-> Nil]

InitWork ==
    /\ newMatchProcessor(<<>>, <<>>, <<>>)
    /\ lookup = NoLookup
    /\ prevLookup = NoLookup
    /\ PoolsInit
    /\ ret = Nil
    /\ InternIdle
    /\ wk = [w \in Workers |-> WorkerIdle]
    \* one instance per goroutine (one per scanned file)
    /\ mps = [i \in Workers |-> newInstance(InstanceInputs[i])]
    /\ mu = [i \in Workers |-> 0]
    /\ heap = EmptyMap
    /\ initializeOnce = FALSE
    /\ poolBuilds = 0
    /\ SplitIdle
    /\ RenderIdle

NextWork ==
    \E w \in Workers :
      \/ ProcessCall(w, w)
      \/ ProcessLock(w)
      \/ ProcessGetResult(w)
      \/ ProcessOnce(w)
      \/ ProcessGetBuffer(w)
      \/ ProcessLoop(w)
      \/ ProcessFinish(w)

SpecWork == InitWork /\ [][NextWork]_vars

(* ---------------- specification: process() calls on one instance ------- *)
\* the instance every goroutine calls
TheInstance == {1}

InitMutex ==
    /\ newMatchProcessor(<<>>, <<>>, <<>>)
    /\ lookup = NoLookup
    /\ prevLookup = NoLookup
    /\ PoolsInit
    /\ ret = Nil
    /\ InternIdle
    /\ wk = [w \in Workers |-> WorkerIdle]
    /\ mps \in [TheInstance -> {newInstance(in) : in \in ProcessorInputs}]
    /\ mu = [i \in TheInstance |-> 0]
    /\ heap = EmptyMap
    /\ initializeOnce = FALSE
    /\ poolBuilds = 0
    /\ SplitIdle
    /\ RenderIdle

NextMutex ==
    \E w \in Workers :
      \/ \E i \in TheInstance : ProcessCall(w, i)
      \/ ProcessLock(w)
      \/ ProcessGetResult(w)
      \/ ProcessOnce(w)
      \/ ProcessGetBuffer(w)
      \/ ProcessLoop(w)
      \/ ProcessFinish(w)

\* a goroutine inside process() that can take a step is scheduled in the
\* end, and sync.Mutex hands the lock to a goroutine that keeps waiting for
\* it (starvation mode)
SpecMutex ==
    /\ InitMutex
    /\ [][NextMutex]_vars
    /\ \A w \in Workers : WF_vars(ProcessStep(w))
    /\ \A w \in Workers : SF_vars(ProcessLock(w))

(* ====================== properties: Line Index ======================== *)
\* offsets of the '\n' bytes strictly before offset o
NewlinesBefore(content, o) == {i \in 0..(o - 1) : content[i + 1] = NL}
\* start offset of the line holding offset o: just after the last '\n'
\* before o, or 0
LineStartOf(content, o) ==
    LET nls == NewlinesBefore(content, o)
    IN  IF nls = {} THEN 0
        ELSE 1 + (CHOOSE m \in nls : \A x \in nls : x <= m)
ValidOffset(content, o) == 0 <= o /\ o < Len(content)

\* C1: for a valid offset o, getLineInfo(o) returns line = 1 + the number
\* of '\n' bytes strictly before o and column = o - the start offset of
\* that line (only '\n' delimits lines), and of two lookups at valid
\* offsets the one at the larger offset never returns the smaller line.
C1_LineAndColumn ==
    /\ (lookup.called /\ ValidOffset(fc, lookup.pos)) =>
         /\ lookup.line = 1 + Cardinality(NewlinesBefore(fc, lookup.pos))
         /\ lookup.char = lookup.pos - LineStartOf(fc, lookup.pos)
    /\ (/\ lookup.called /\ ValidOffset(fc, lookup.pos)
        /\ prevLookup.called /\ ValidOffset(fc, prevLookup.pos)) =>
         /\ prevLookup.pos <= lookup.pos => prevLookup.line <= lookup.line
         /\ lookup.pos <= prevLookup.pos => lookup.line <= prevLookup.line

\* a lookup on a '\n' byte (line 1) followed by one on the byte after it
\* (line 2, column 0)
C1_Witness ==
    /\ prevLookup.called /\ ValidOffset(fc, prevLookup.pos)
    /\ fc[prevLookup.pos + 1] = NL
    /\ prevLookup.line = 1
    /\ lookup.called /\ lookup.pos = prevLookup.pos + 1
    /\ ValidOffset(fc, lookup.pos)
    /\ lookup.line = 2 /\ lookup.char = 0

Returned == ret # Nil
\* the span fields of a MatchResult
SpanOf(r) == <<r.StartingLine, r.StartingOffset, r.EndingLine, r.EndingOffset>>
\* the orders in which a list of n matches can be fed
MatchOrders(n) ==
    {p \in [1..n -> 1..n] : \A i, j \in 1..n : p[i] = p[j] => i = j}
Permuted(ms, p) == [i \in 1..Len(ms) |-> ms[p[i]]]
\* what process() returns for the processor's content and the match list ms
ResultFor(ms) ==
    IF Len(ms) = 0 THEN ZeroMatchResult
    ELSE matchResultOf(processFinal(fc, lineOffsets, ms, patterns,
                                    [k \in {} |-> k], <<>>))
InBounds(m) == 0 <= m.offset /\ m.offset + m.length <= Len(fc)

\* C3: process() returns the same StartingLine, StartingOffset, EndingLine
\* and EndingOffset for every permutation of the match list.
C3_OrderIndependent ==
    Returned =>
      \A p \in MatchOrders(Len(matches)) :
        SpanOf(ResultFor(Permuted(matches, p))) = SpanOf(ret)

\* two processed non-empty matches on one line, the later one starting and
\* ending at the smaller column: the start tie-break replaces the start,
\* and in the opposite order the end tie-break replaces the end
C3_Witness ==
    /\ Returned
    /\ Len(matches) = 2
    /\ InBounds(matches[1]) /\ InBounds(matches[2])
    /\ matches[1].length > 0 /\ matches[2].length > 0
    /\ LET s1 == getLineInfo(fc, lineOffsets, matches[1].offset)
           s2 == getLineInfo(fc, lineOffsets, matches[2].offset)
           e1 == getLineInfo(fc, lineOffsets,
                             matches[1].offset + matches[1].length - 1)
           e2 == getLineInfo(fc, lineOffsets,
                             matches[2].offset + matches[2].length - 1)
       IN  /\ s1[1] = s2[1] /\ s2[2] < s1[2]
           /\ e1[1] = e2[1] /\ e2[2] < e1[2]
           /\ ret.StartingOffset = s2[2]
           /\ ret.EndingOffset = e1[2]

\* <<line, column>> of the byte at offset o, by counting '\n' bytes
PositionOf(content, o) ==
    <<1 + Cardinality(NewlinesBefore(content, o)), o - LineStartOf(content, o)>>
LexLeq(a, b) == a[1] < b[1] \/ (a[1] = b[1] /\ a[2] <= b[2])
LexMin(S) == CHOOSE a \in S : \A b \in S : LexLeq(a, b)
LexMax(S) == CHOOSE a \in S : \A b \in S : LexLeq(b, a)
ProcessedMatches == {matches[i] : i \in {j \in 1..Len(matches) : InBounds(matches[j])}}

\* C4: the returned span is the smallest line/column box around the
\* processed matches: its start is the lexicographically smallest position
\* of a processed match's first byte, its end the largest position of a
\* processed match's last byte (offset+length-1), and every byte of a
\* processed match lies between the two.
C4_SmallestBox ==
    Returned =>
      LET firsts == {PositionOf(fc, m.offset) :
                       m \in {x \in ProcessedMatches : ValidOffset(fc, x.offset)}}
          lasts == {PositionOf(fc, m.offset + m.length - 1) :
                       m \in {x \in ProcessedMatches :
                                ValidOffset(fc, x.offset + x.length - 1)}}
          start == <<ret.StartingLine, ret.StartingOffset>>
          end == <<ret.EndingLine, ret.EndingOffset>>
      IN  /\ firsts # {} => start = LexMin(firsts)
          /\ lasts # {} => end = LexMax(lasts)
          /\ \A m \in ProcessedMatches :
               \A k \in m.offset..(m.offset + m.length - 1) :
                 /\ LexLeq(start, PositionOf(fc, k))
                 /\ LexLeq(PositionOf(fc, k), end)

\* C5: whenever process() returns StartingLine and EndingLine both nonzero,
\* StartingLine <= EndingLine (zero-length matches included).
C5_StartLineBeforeEndLine ==
    Returned =>
      ((ret.StartingLine # 0 /\ ret.EndingLine # 0)
         => ret.StartingLine <= ret.EndingLine)

(* ====================== properties: Line-Splitting Transform ========== *)
\* number of behaviors the claim has Split emit for b: max(1, len(LineNumbers))
EmittedFor(b) == IF Len(b.LineNumbers) <= 1 THEN 1 ELSE Len(b.LineNumbers)
\* number of behaviors emitted for the behaviors before the k-th
RECURSIVE EmittedBefore(_, _)
EmittedBefore(bs, k) ==
    IF k <= 1 THEN 0 ELSE EmittedBefore(bs, k - 1) + EmittedFor(bs[k - 1])

\* C6: Split's Behaviors are, in input order, the behavior itself when it
\* has 0 or 1 line numbers, and otherwise N behaviors whose i-th has
\* LineNumbers = [LineNumbers[i]] and CharOffsets = [CharOffsets[i]] (0 when
\* there is no i-th offset); the output has the sum of max(1, N) entries and
\* none has more than one line number.
C6_SplitShape ==
    splitCalls >= 1 =>
      LET in == splitIn.Behaviors
          out == splitOut.Behaviors
      IN  /\ Len(out) = EmittedBefore(in, Len(in) + 1)
          /\ \A j \in 1..Len(out) : Len(out[j].LineNumbers) <= 1
          /\ \A k \in 1..Len(in) :
               LET base == EmittedBefore(in, k)
                   n == Len(in[k].LineNumbers)
               IN  IF n <= 1
                   THEN out[base + 1] = in[k]
                   ELSE \A i \in 1..n :
                          /\ out[base + i].LineNumbers = <<in[k].LineNumbers[i]>>
                          /\ out[base + i].CharOffsets =
                               <<IF i <= Len(in[k].CharOffsets)
                                 THEN in[k].CharOffsets[i] ELSE 0>>

\* a first call on a report whose first behavior has one line number and
\* whose second has two line numbers but a single offset: three behaviors
\* come out, the last with the default offset 0
C6_Witness ==
    /\ splitCalls = 1
    /\ Len(splitIn.Behaviors) = 2
    /\ Len(splitIn.Behaviors[1].LineNumbers) = 1
    /\ Len(splitIn.Behaviors[2].LineNumbers) = 2
    /\ Len(splitIn.Behaviors[2].CharOffsets) = 1
    /\ Len(splitOut.Behaviors) = 3
    /\ splitOut.Behaviors[3].LineNumbers = <<splitIn.Behaviors[2].LineNumbers[2]>>
    /\ splitOut.Behaviors[3].CharOffsets = <<0>>

\* C7: every behavior emitted for a source behavior with more than one line
\* number has every field other than LineNumbers and CharOffsets equal to
\* the source's, StartingLine, EndingLine, StartingOffset and EndingOffset
\* included.
C7_OtherFieldsCopied ==
    splitCalls >= 1 =>
      LET in == splitIn.Behaviors
          out == splitOut.Behaviors
      IN  \A k \in 1..Len(in) :
            Len(in[k].LineNumbers) > 1 =>
              \A i \in 1..Len(in[k].LineNumbers) :
                \A f \in DOMAIN in[k] \ {"LineNumbers", "CharOffsets"} :
                  out[EmittedBefore(in, k) + i][f] = in[k][f]

\* C8: Split(Split(r)) equals Split(r) field for field.
C8_SplitIdempotent ==
    splitCalls = 2 => splitOut = splitIn

\* the second call ran on a report in which the first call had split a
\* behavior (a lone second line number exists only in split output)
C8_Witness ==
    /\ splitCalls = 2
    /\ \E j \in 1..Len(splitOut.Behaviors) :
         splitOut.Behaviors[j].LineNumbers = <<LineNumberPool[2]>>

MatchBytes(m) == SubSeq(fc, m.offset + 1, m.offset + m.length)
\* the bytes 0x20..0x7E
PrintableBytes == 32..126
AllPrintable(m) == \A k \in 1..m.length : MatchBytes(m)[k] \in PrintableBytes
\* the identifiers of pats, each once, in order of first occurrence
RECURSIVE FirstSeen(_, _)
FirstSeen(pats, seen) ==
    IF pats = <<>> THEN <<>>
    ELSE IF Head(pats) \in seen THEN FirstSeen(Tail(pats), seen)
         ELSE <<Head(pats)>> \o FirstSeen(Tail(pats), seen \cup {Head(pats)})
\* the strings the matches of ms contribute, in order: nothing for a
\* rejected match, its bytes for a printable one, grp for any other
RECURSIVE Contributions(_, _)
Contributions(ms, grp) ==
    IF ms = <<>> THEN <<>>
    ELSE LET m == Head(ms)
             c == IF ~InBounds(m) THEN <<>>
                  ELSE IF AllPrintable(m) THEN <<MatchBytes(m)>> ELSE grp
         IN  c \o Contributions(Tail(ms), grp)
IsIdentifier(s) == \E i \in 1..Len(patterns) : patterns[i] = s
NotIdentifier(s) == ~IsIdentifier(s)

\* C16: for each processed match holding an unprintable byte, process()
\* appends the deduplicated pattern identifiers: each distinct identifier
\* of the pattern list exactly once, in order of first occurrence, also
\* when the duplicates in the list are not adjacent.
C16_IdentifiersDeduplicated ==
    Returned =>
      SelectSeq(ret.Strings, IsIdentifier)
        = SelectSeq(Contributions(matches, FirstSeen(patterns, {})), IsIdentifier)

\* C17: a match with offset < 0 or offset+length > len(content) is skipped
\* and adds nothing to Strings or to the span: the result is that of the
\* match list without it; when no match is processed, Strings is empty and
\* the four position fields are 0.
C17_RejectedMatchesIgnored ==
    Returned =>
      /\ ret = ResultFor(SelectSeq(matches, InBounds))
      /\ (\A i \in 1..Len(matches) : ~InBounds(matches[i]))
           => /\ ret.Strings = <<>>
              /\ SpanOf(ret) = <<0, 0, 0, 0>>

\* a match running past the end of the content was rejected and a
\* non-empty match was processed
C17_Witness ==
    /\ Returned
    /\ Len(matches) = 2
    /\ 0 <= matches[1].offset
    /\ matches[1].offset + matches[1].length > Len(fc)
    /\ InBounds(matches[2])
    /\ matches[2].length > 0
    /\ ret.StartingLine > 0

\* C18: for each processed match whose bytes are all in [0x20, 0x7E],
\* process() appends exactly one string, equal to
\* content[offset : offset+length]; these strings are in match-list order,
\* equal strings of different matches are all kept, and none is changed by
\* a later match.
C18_PrintableStringsInOrder ==
    Returned =>
      SelectSeq(ret.Strings, NotIdentifier) = Contributions(matches, <<>>)

\* two processed matches at different offsets gave the same string twice
C18_Witness ==
    /\ Returned
    /\ Len(matches) = 2
    /\ matches[1].offset # matches[2].offset
    /\ matches[1].length = 1
    /\ matches[2].length = 1
    /\ ret.Strings = <<<<ChA>>, <<ChA>>>>

(* ====================== properties: Serialization Adapter ============= *)
\* C9: after JSON.Full returns, every FileReport in the store (and every
\* Behavior it references) has the field values it had before the call,
\* ArchiveRoot and FullPath included.
C9_StoreNotMutated ==
    fullPc = "done" => files = filesAtCall

\* paths of the stored reports that are not skipped
NonSkipped(fs) == {p \in DOMAIN fs : fs[p].Skipped = ""}
\* a report with its internal-only fields empty
ClearedReport(fr) == [fr EXCEPT !.ArchiveRoot = "", !.FullPath = ""]
\* the document written by the latest write to the sink
LastWritten == sink[Len(sink)]

\* C11: for every Report and config, the files map of every document
\* JSON.Full writes has no entry for a stored FileReport whose Skipped is
\* non-empty and has an entry, under its path, for every stored FileReport
\* whose Skipped is empty.
C11_FilesMapIsNonSkipped ==
    \A i \in 1..Len(sink) : DOMAIN sink[i].Files = NonSkipped(files)

\* C12: every entry JSON.Full writes for a non-skipped stored FileReport is
\* the Split result when the config is non-nil with LineInfo true, and
\* otherwise the stored report with its Behaviors sequence unchanged; either
\* way the entry's ArchiveRoot and FullPath are empty.
C12_EntryPerFlag ==
    \A i \in 1..Len(sink) :
      \A p \in DOMAIN sink[i].Files :
        LET e == sink[i].Files[p]
        IN  /\ e.ArchiveRoot = ""
            /\ e.FullPath = ""
            /\ IF config # Nil /\ config.LineInfo
               THEN e = ClearedReport(splitBehaviorsByLineNumbers(files[p]))
               ELSE /\ e.Behaviors = files[p].Behaviors
                    /\ e = ClearedReport(files[p])

\* a call without LineInfo has written, for a report stored with internal
\* fields set, an entry whose behavior still carries its two line numbers
C12_Witness ==
    /\ fullPc = "done"
    /\ Len(sink) = 1
    /\ config # Nil
    /\ ~config.LineInfo
    /\ \E p \in DOMAIN LastWritten.Files :
         /\ filesAtCall[p].ArchiveRoot # ""
         /\ filesAtCall[p].FullPath # ""
         /\ Len(LastWritten.Files[p].Behaviors) = 1
         /\ Len(LastWritten.Files[p].Behaviors[1].LineNumbers) = 2

\* C13: a call of JSON.Full made when the context is already cancelled
\* returns the cancellation error at once: nothing is written to the sink
\* and the store is neither iterated nor modified.
C13_CancelledBeforeCall ==
    [][(fullPc = "idle" /\ ctxCancelled /\ fullPc' # "idle")
         => /\ fullPc' = "done"
            /\ fullErr' = Canceled
            /\ sink' = sink
            /\ files' = files
            /\ toVisit' = toVisit]_vars

\* a call on a store holding a non-skipped report with internal fields set
\* has returned the cancellation error, nothing written, the report intact
C13_Witness ==
    /\ fullPc = "done"
    /\ fullErr = Canceled
    /\ ctxCancelled
    /\ sink = <<>>
    /\ \E p \in NonSkipped(files) : files[p].ArchiveRoot # ""

\* C14: cancellation is never swallowed: whenever JSON.Full returns nil, the
\* files map it wrote holds every stored FileReport whose Skipped is empty
\* (a context cancelled while the store is iterated makes Full return the
\* cancellation error, never succeed with a partial document).
C14_NoSuccessWithPartialDocument ==
    (fullPc = "done" /\ fullErr = Nil)
        => DOMAIN LastWritten.Files = NonSkipped(files)

\* C15: a document written by JSON.Full carries a stats payload exactly when
\* the config is non-nil, Stats is requested and the Report has no Diff; no
\* written document carries both a diff and stats.
C15_StatsIffRequestedAndNoDiff ==
    \A i \in 1..Len(sink) :
      /\ (sink[i].Stats # Nil) <=> (config # Nil /\ config.Stats /\ diff = Nil)
      /\ ~(sink[i].Diff # Nil /\ sink[i].Stats # Nil)

\* stats were requested for a Report that has a diff, and the document
\* written carries the diff and no stats
C15_Witness ==
    /\ Len(sink) >= 1
    /\ config # Nil
    /\ config.Stats
    /\ sink[1].Diff # Nil
    /\ sink[1].Stats = Nil

LineInfoDisabled == config = Nil \/ ~config.LineInfo
\* the behaviors of the entries of the written documents, each with the
\* stored behavior it was emitted for (none when the sequences differ)
EmittedWithStored ==
    {<<sink[i].Files[p].Behaviors[k], files[p].Behaviors[k]>> :
       <<i, p, k>> \in {t \in (1..Len(sink)) \X StorePaths \X (1..MaxBehaviors) :
                         /\ t[2] \in DOMAIN sink[t[1]].Files
                         /\ t[3] \in 1..Len(sink[t[1]].Files[t[2]].Behaviors)
                         /\ t[3] \in 1..Len(files[t[2]].Behaviors)}}

\* C19 (as claimed): when LineInfo is disabled, every Behavior emitted in
\* the output has StartingLine 0, EndingLine 0 and no LineNumbers, whatever
\* location data the behaviors held before rendering.
C19_NoLocationWithoutLineInfo ==
    LineInfoDisabled =>
      \A i \in 1..Len(sink) :
        \A p \in DOMAIN sink[i].Files :
          \A k \in 1..Len(sink[i].Files[p].Behaviors) :
            LET b == sink[i].Files[p].Behaviors[k]
            IN  /\ b.StartingLine = 0
                /\ b.EndingLine = 0
                /\ b.LineNumbers = <<>>

\* C19 (amended): when LineInfo is disabled, JSON.Full emits the behaviors
\* of every non-skipped report one for one with the StartingLine, EndingLine
\* and LineNumbers they are stored with: 0, 0 and empty for a behavior
\* stored without location data, the stored values otherwise.
C19_LocationPassedThrough ==
    LineInfoDisabled =>
      /\ \A i \in 1..Len(sink) :
           \A p \in DOMAIN sink[i].Files :
             Len(sink[i].Files[p].Behaviors) = Len(files[p].Behaviors)
      /\ \A eb \in EmittedWithStored :
           /\ eb[1].StartingLine = eb[2].StartingLine
           /\ eb[1].EndingLine = eb[2].EndingLine
           /\ eb[1].LineNumbers = eb[2].LineNumbers

\* with a config that does not request LineInfo, one document holds a
\* behavior emitted without location data and one emitted with the span
\* and the line numbers it was stored with
C19_Witness ==
    /\ config # Nil
    /\ ~config.LineInfo
    /\ \E i \in 1..Len(sink) :
         \E p, q \in DOMAIN sink[i].Files :
           /\ sink[i].Files[p].Behaviors[1].StartingLine = 0
           /\ sink[i].Files[p].Behaviors[1].LineNumbers = <<>>
           /\ sink[i].Files[q].Behaviors[1].StartingLine = 10
           /\ sink[i].Files[q].Behaviors[1].EndingLine = 12
           /\ sink[i].Files[q].Behaviors[1].LineNumbers = <<10, 25>>

\* the document of a Report and a config, with no reference to the order in
\* which the store is visited
DocumentOf(fs, d, c) ==
    FullStats(c, [Diff |-> d,
                  Files |-> [p \in NonSkipped(fs) |->
                               FullEntry(c, ClearedReport(fs[p]))],
                  Filter |-> "", Stats |-> Nil])

\* C20: rendering is deterministic and repeatable: every document JSON.Full
\* writes for the Report and config is the same document, whichever call
\* wrote it and in whatever order Range visited the paths.
C20_SameDocumentEveryCall ==
    \A i \in 1..Len(sink) :
      /\ sink[i] = sink[1]
      /\ sink[i] = DocumentOf(files, diff, config)

(* ====================== properties: concurrent Intern ================= *)
\* in every state: a returned string equals the argument and is the
\* instance the map holds, strings[k] == k, the write lock excludes
\* readers, and no goroutine asks for or holds the write lock while it
\* holds the read lock
InternSafe ==
    /\ \A p \in Procs :
         spRet[p] # Nil =>
           /\ spRet[p].val = spArg[p].val
           /\ spArg[p].val \in DOMAIN strings
           /\ spRet[p] = strings[spArg[p].val]
    /\ \A k \in DOMAIN strings : strings[k].val = k
    /\ \A p \in Procs : spPc[p] = "write" => spWriter = p /\ spReaders = {}
    /\ \A p \in Procs :
         spPc[p] \in {"lock", "drain", "write"} => p \notin spReaders
\* in every step: a value the map holds keeps the instance stored first
InsertedOnce ==
    \A k \in DOMAIN strings : k \in DOMAIN strings' /\ strings'[k] = strings[k]

\* C21: under every interleaving of concurrent Intern calls on one
\* StringPool, each call returns a string equal to its argument, each
\* distinct value is inserted at most once (the loser of a race returns the
\* stored instance after the re-check), strings[k] == k always, the read
\* lock is released before the write lock is requested, and every call
\* eventually returns.
C21_InternConcurrent ==
    /\ []InternSafe
    /\ [][InsertedOnce]_vars
    /\ \A p \in Procs : (spPc[p] # "idle") ~> (spPc[p] = "idle")

\* two goroutines missed the same value on the read path: p has stored and
\* returned its string, and q now holds the write lock with the value
\* already in the map
C21_Witness ==
    \E p, q \in Procs :
      /\ p # q
      /\ spArg[p] # Nil /\ spArg[q] # Nil
      /\ spArg[p].val = spArg[q].val
      /\ spPc[p] = "idle" /\ spPc[q] = "write"
      /\ spRet[p] = spArg[p]
      /\ strings[spArg[p].val].by = p

(* ====================== properties: concurrent process() ============== *)
\* the calls between acquiring the scratch buffers and building the result
InFlight(w) == wk[w].pc \in {"getResult", "once", "getBuffer", "loop", "finish"}
\* in every state: the calls in flight on one instance are at most one, that
\* call holds the instance's mutex, and a mutex is held by no other call
Serialized ==
    /\ \A v, w \in Workers :
         (InFlight(v) /\ InFlight(w) /\ wk[v].inst = wk[w].inst) => v = w
    /\ \A w \in Workers : InFlight(w) => mu[wk[w].inst] = w
    /\ \A i \in DOMAIN mu :
         mu[i] # 0 => InFlight(mu[i]) /\ wk[mu[i]].inst = i

\* C22: at most one process() call on a matchProcessor with a non-empty
\* match list is ever between acquiring the scratch buffers and building
\* the result: calls on one instance are serialized by its mutex, the mutex
\* is released on every exit path, and every call eventually returns.
C22_ProcessSerialized ==
    /\ []Serialized
    /\ \A w \in Workers : (wk[w].pc # "idle") ~> (wk[w].pc = "idle")

\* a call is in its match loop while another call on the same instance
\* waits for the mutex
C22_Witness ==
    \E v, w \in Workers :
      /\ v # w
      /\ wk[v].inst = wk[w].inst
      /\ wk[v].pc = "loop"
      /\ wk[w].pc = "lock"

NoDuplicates(items) ==
    \A j, k \in 1..Len(items) : items[j] = items[k] => j = k
\* the slices and buffers lying in the two pools
InPools == Pooled(matchResultPool) \cup Pooled(matchPool.bufs)

\* C23: every scratch resource process() acquires (the pooled slice and
\* the pooled copy buffer) is back in its pool, once, when process()
\* returns, on every path through the match loop (all matches rejected
\* included); after any sequence of completed calls no resource is still
\* held; and the shared buffer pool is built exactly once, before its first
\* Get, however many calls race on first use.
C23_PoolDiscipline ==
    /\ NoDuplicates(matchResultPool)
    /\ NoDuplicates(matchPool.bufs)
    /\ InPools \cap Held = {}
    /\ DOMAIN heap = InPools \cup Held
    /\ \A w \in Workers : wk[w].pc = "idle" => HeldBy(w) = {}
    /\ poolBuilds <= 1
    /\ initializeOnce <=> poolBuilds = 1
    /\ matchPool.built <=> poolBuilds = 1
    /\ \A w \in Workers :
         wk[w].pc \in {"getBuffer", "loop", "finish"} => poolBuilds = 1

\* two calls that were in flight together have returned, one of them with
\* its only match rejected: both slices and both buffers are pooled and the
\* buffer pool was built once
C23_Witness ==
    /\ \A w \in Workers : wk[w].pc = "idle"
    /\ \E w \in Workers :
         /\ wk[w].ret # Nil
         /\ Len(mps[wk[w].inst].matches) > 0
         /\ wk[w].ret.res = ZeroMatchResult
    /\ Len(matchResultPool) = 2
    /\ Len(matchPool.bufs) = 2
    /\ poolBuilds = 1

\* the Strings of the result w's last call returned, as its caller reads
\* them now
ObservedStrings(w) ==
    IF wk[w].ret.alias = Nil THEN wk[w].ret.res.Strings
    ELSE heap[wk[w].ret.alias]
\* what process() returns on instance i when no other call runs
AloneResult(i) ==
    IF Len(mps[i].matches) = 0 THEN ZeroMatchResult
    ELSE matchResultOf(processFinal(mps[i].fc, mps[i].lineOffsets,
                                    mps[i].matches, mps[i].patterns,
                                    EmptyMap, <<>>))

\* C24: concurrent process() calls on different instances sharing the
\* package pools never corrupt each other: no pooled slice or buffer is
\* held by two calls in flight, each call's MatchResult is the one the call
\* returns when run alone, and the returned Strings are a private copy that
\* later calls reusing the pooled slice never change.
C24_CallsIsolated ==
    /\ \A v, w \in Workers : v # w => HeldBy(v) \cap HeldBy(w) = {}
    /\ \A w \in Workers :
         wk[w].ret # Nil =>
           /\ wk[w].ret.alias = Nil
           /\ [wk[w].ret.res EXCEPT !.Strings = ObservedStrings(w)]
                = AloneResult(wk[w].inst)

\* a call has returned three strings, and a later call on another instance
\* has taken the one pooled slice there is and emptied it
C24_Witness ==
    \E v, w \in Workers :
      /\ v # w
      /\ wk[v].ret # Nil
      /\ Len(wk[v].ret.res.Strings) = 3
      /\ wk[w].pc = "finish"
      /\ wk[w].inst # wk[v].inst
      /\ {id \in DOMAIN heap : id.kind = "slice"} = {wk[w].result}
      /\ heap[wk[w].result] = <<>>

====
